---------------------------- MODULE Spec2Model ----------------------------
(***************************************************************************)
(* Model of src/project3.py: a Streamlit script that is re-executed from   *)
(* top to bottom on every widget interaction.  One run loads the uploaded  *)
(* CSV, min-max normalises three metric columns, combines them into a      *)
(* weighted score, renders a ranked table and four sorted charts, and      *)
(* compares a selected region with the column means.                       *)
(*                                                                         *)
(* Column names of the source and the names used here:                     *)
(*   '지역' -> region, '평균_통행_속도' -> speed,                          *)
(*   '대중교통_노선_수' -> transit, '교통사고_건수_10만명당' -> accidents, *)
(*   '정규화_평균_통행_속도' -> n_speed, '정규화_대중교통_노선_수' ->      *)
(*   n_transit, '정규화_교통사고_건수' -> n_safety,                        *)
(*   '교통_환경_점수' -> score, '순위' -> rank.                            *)
(*                                                                         *)
(* Numbers are exact rationals [k |-> "num", n, d] in lowest terms with    *)
(* d > 0; float64 rounding is abstracted away.  The float NaN, which       *)
(* pandas produces for an empty cell and for 0/0, is the value NaN; a      *)
(* cell holding text is the value Text.                                    *)
(***************************************************************************)
EXTENDS Integers, Sequences, FiniteSets

VARIABLES
    uploaded_file,   \* value of st.sidebar.file_uploader (line 51)
    user_location,   \* value of st.selectbox (line 98)
    argsort_stable,  \* does this build's default 'quicksort' keep ties in order
    status,          \* message kind shown by load_and_preprocess_data
    df,              \* module-level df at the end of the run
    display_df,      \* ranked table handed to st.dataframe (lines 60-64)
    charts,          \* data of the four bar charts (lines 70-88)
    all_locations,   \* options of the selectbox (line 97)
    comparison,      \* comparison block (lines 100-118)
    warning,         \* empty-state prompt shown (line 121)
    exception,       \* exception that ended the run, "none" if it completed
    memo             \* history variable: one remembered (file, selection, page)

vars == <<uploaded_file, user_location, argsort_stable, status, df, display_df,
          charts, all_locations, comparison, warning, exception, memo>>

-----------------------------------------------------------------------------
(* Bounds of the checked inputs *)

MaxRows == 3

MaxSessionRows == 2

-----------------------------------------------------------------------------
(* Numbers *)

Abs(x) == IF x < 0 THEN -x ELSE x

RECURSIVE GCD(_, _)
GCD(a, b) == IF b = 0 THEN a ELSE GCD(b, a % b)

NaN == [k |-> "nan", n |-> 0, d |-> 1]

Text == [k |-> "str", n |-> 0, d |-> 1]

Unset == [k |-> "unset", n |-> 0, d |-> 1]

Inf(sign) == [k |-> "inf", n |-> sign, d |-> 1]

Rat(n, d) ==
    LET g == GCD(Abs(n), Abs(d))
        s == IF d < 0 THEN -1 ELSE 1
    IN  [k |-> "num", n |-> (s * n) \div g, d |-> (s * d) \div g]

Num(n) == Rat(n, 1)

IsNum(a) == a.k = "num"

Sign(x) == IF x > 0 THEN 1 ELSE IF x < 0 THEN -1 ELSE 0

\* float subtraction: NaN propagates; inf - finite = inf
Sub(a, b) ==
    IF IsNum(a) /\ IsNum(b) THEN Rat(a.n * b.d - b.n * a.d, a.d * b.d)
    ELSE IF a.k = "inf" /\ IsNum(b) THEN a
    ELSE IF IsNum(a) /\ b.k = "inf" THEN Inf(-b.n)
    ELSE NaN

\* float addition
Add(a, b) ==
    IF IsNum(a) /\ IsNum(b) THEN Rat(a.n * b.d + b.n * a.d, a.d * b.d)
    ELSE IF a.k = "inf" /\ IsNum(b) THEN a
    ELSE IF IsNum(a) /\ b.k = "inf" THEN b
    ELSE IF a.k = "inf" /\ b.k = "inf" /\ a.n = b.n THEN a
    ELSE NaN

\* float multiplication
Mul(a, b) ==
    IF IsNum(a) /\ IsNum(b) THEN Rat(a.n * b.n, a.d * b.d)
    ELSE IF a.k \in {"num", "inf"} /\ b.k \in {"num", "inf"}
         THEN IF a.n = 0 \/ b.n = 0 THEN NaN ELSE Inf(Sign(a.n) * Sign(b.n))
    ELSE NaN

\* pandas/numpy float division: 0/0 is NaN and x/0 is +-inf, no exception
Div(a, b) ==
    IF IsNum(a) /\ IsNum(b)
    THEN IF b.n = 0
         THEN IF a.n = 0 THEN NaN ELSE Inf(Sign(a.n))
         ELSE Rat(a.n * b.d, a.d * b.n)
    ELSE IF a.k = "inf" /\ IsNum(b) THEN Inf(a.n * (IF b.n < 0 THEN -1 ELSE 1))
    ELSE IF IsNum(a) /\ b.k = "inf" THEN Num(0)
    ELSE NaN

\* float comparisons: every comparison with NaN is False
Lt(a, b) ==
    IF IsNum(a) /\ IsNum(b) THEN a.n * b.d < b.n * a.d
    ELSE IF a.k = "inf" /\ IsNum(b) THEN a.n < 0
    ELSE IF IsNum(a) /\ b.k = "inf" THEN b.n > 0
    ELSE IF a.k = "inf" /\ b.k = "inf" THEN a.n < b.n
    ELSE FALSE

Gt(a, b) == Lt(b, a)


-----------------------------------------------------------------------------
(* Sequences *)

Range(s) == {s[i] : i \in 1..Len(s)}

\* the sequence s with every element evaluated
Tuple(s) == s \o <<>>

RECURSIVE SeqsUpTo(_, _)
SeqsUpTo(S, n) ==
    IF n = 0 THEN {<<>>}
    ELSE LET shorter == SeqsUpTo(S, n - 1) IN
         shorter \cup {Append(s, x) : s \in {t \in shorter : Len(t) = n - 1}, x \in S}

RECURSIVE SumCells(_, _)
SumCells(s, i) == IF i = 0 THEN Num(0) ELSE Add(SumCells(s, i - 1), s[i])

-----------------------------------------------------------------------------
(* Uploaded files and data frames *)

Metrics == {"speed", "transit", "accidents"}

RequiredColumns == {"region"} \cup Metrics

\* the first selectbox option, '선택' (line 97), also compared against on line 100
Placeholder == "seontaek"

\* an empty region cell: read_csv turns it into a float NaN, equal to nothing
NaNRegion == "<NaN>"

NoFile == [kind |-> "none", columns |-> {}, rows |-> <<>>]

\* bytes that pd.read_csv rejects (empty file, bad encoding, ragged rows)
Garbage == [kind |-> "garbage", columns |-> {}, rows |-> <<>>]

Csv(columns, rows) == [kind |-> "csv", columns |-> columns, rows |-> rows]

\* one data line of a CSV file
MakeRow(region, speed, transit, accidents) ==
    [region |-> region, speed |-> speed, transit |-> transit, accidents |-> accidents]

\* a row of the data frame: the cells read from the file, and the columns that
\* calculate_traffic_score adds, not yet set
FrameRow(r) ==
    [region |-> r.region, speed |-> r.speed, transit |-> r.transit,
     accidents |-> r.accidents, n_speed |-> Unset, n_transit |-> Unset,
     n_safety |-> Unset, score |-> Unset]

\* pd.DataFrame()
EmptyFrame == [columns |-> {}, rows |-> <<>>]

\* DataFrame.empty: some axis has length 0
IsEmpty(frame) == frame.columns = {} \/ Len(frame.rows) = 0

Column(frame, c) == Tuple([i \in 1..Len(frame.rows) |-> frame.rows[i][c]])

\* a column holding any text cell is read as dtype object
IsObject(frame, c) == \E i \in 1..Len(frame.rows) : frame.rows[i][c].k = "str"

NumericCells(col) == {i \in 1..Len(col) : IsNum(col[i])}

\* Series.min(): NaN cells are skipped; an all-NaN column gives NaN
ColMin(col) ==
    IF NumericCells(col) = {} THEN NaN
    ELSE col[CHOOSE i \in NumericCells(col) :
                 \A j \in NumericCells(col) : ~Lt(col[j], col[i])]

\* Series.max()
ColMax(col) ==
    IF NumericCells(col) = {} THEN NaN
    ELSE col[CHOOSE i \in NumericCells(col) :
                 \A j \in NumericCells(col) : ~Lt(col[i], col[j])]

\* Series.mean(): skipna, NaN when nothing is left
ColMean(col) ==
    LET idx == NumericCells(col)
        total == SumCells(Tuple([i \in 1..Len(col) |->
                                    IF i \in idx THEN col[i] ELSE Num(0)]), Len(col))
    IN  IF idx = {} THEN NaN ELSE Div(total, Num(Cardinality(idx)))

-----------------------------------------------------------------------------
(* load_and_preprocess_data, lines 12-23 *)

\* load_and_preprocess_data with the frame of the previous run kept and handed
\* out again for whatever CSV comes next
load_and_preprocess_data_cached(file) ==
    IF file.kind = "none" THEN [df |-> EmptyFrame, status |-> "info"]
    ELSE IF file.kind = "garbage" THEN [df |-> EmptyFrame, status |-> "error"]
    ELSE IF status = "success" /\ ~IsEmpty(df) THEN [df |-> df, status |-> "success"]
    ELSE [df     |-> [columns |-> file.columns,
                      rows    |-> Tuple([i \in 1..Len(file.rows) |-> FrameRow(file.rows[i])])],
          status |-> "success"]

load_and_preprocess_data(file) ==
    IF file.kind = "none" THEN [df |-> EmptyFrame, status |-> "info"]
    ELSE IF file.kind = "garbage" THEN [df |-> EmptyFrame, status |-> "error"]
    ELSE [df     |-> [columns |-> file.columns,
                      rows    |-> Tuple([i \in 1..Len(file.rows) |-> FrameRow(file.rows[i])])],
          status |-> "success"]

-----------------------------------------------------------------------------
(* calculate_traffic_score, lines 26-43 *)

W_speed == Rat(4, 10)

W_transit == Rat(3, 10)

W_safety == Rat(3, 10)

\* NormalizeAscending with the maximum, not the range, as the divisor
NormalizeAscending_ByMax(col) ==
    LET lo == ColMin(col)
        hi == ColMax(col)
    IN  Tuple([i \in 1..Len(col) |-> Mul(Div(Sub(col[i], lo), hi), Num(100))])

\* (col - col.min()) / (col.max() - col.min()) * 100, lines 33-34
NormalizeAscending(col) ==
    LET lo == ColMin(col)
        hi == ColMax(col)
    IN  Tuple([i \in 1..Len(col) |-> Mul(Div(Sub(col[i], lo), Sub(hi, lo)), Num(100))])

\* (col.max() - col) / (col.max() - col.min()) * 100, line 35
NormalizeDescending(col) ==
    LET lo == ColMin(col)
        hi == ColMax(col)
    IN  Tuple([i \in 1..Len(col) |-> Mul(Div(Sub(hi, col[i]), Sub(hi, lo)), Num(100))])

\* df[dst] = <values>: the frame is changed in place
SetColumn(frame, dst, values) ==
    [columns |-> frame.columns \cup {dst},
     rows |-> Tuple([i \in 1..Len(frame.rows) |->
                        [frame.rows[i] EXCEPT ![dst] = values[i]]])]

\* the exception raised by arithmetic on df[c], "none" if there is none
ColumnError(frame, c) ==
    IF c \notin frame.columns THEN "KeyError"
    ELSE IF IsObject(frame, c) THEN "TypeError"
    ELSE "none"

WeightedSum(row) ==
    Add(Add(Mul(row.n_speed, W_speed), Mul(row.n_transit, W_transit)),
        Mul(row.n_safety, W_safety))

\* lines 37-41
WithScore(f3) ==
    SetColumn(f3, "score", Tuple([i \in 1..Len(f3.rows) |-> WeightedSum(f3.rows[i])]))

\* line 35 and what follows it
ScoreSafety(f2) ==
    IF ColumnError(f2, "accidents") # "none"
    THEN [exc |-> ColumnError(f2, "accidents"), df |-> f2]
    ELSE [exc |-> "none",
          df  |-> WithScore(SetColumn(f2, "n_safety",
                                      NormalizeDescending(Column(f2, "accidents"))))]

\* line 34 and what follows it
ScoreTransit(f1) ==
    IF ColumnError(f1, "transit") # "none"
    THEN [exc |-> ColumnError(f1, "transit"), df |-> f1]
    ELSE ScoreSafety(SetColumn(f1, "n_transit", NormalizeAscending(Column(f1, "transit"))))

\* the result is the frame as the function left it and the exception it raised
calculate_traffic_score(frame) ==
    IF ColumnError(frame, "speed") # "none"
    THEN [exc |-> ColumnError(frame, "speed"), df |-> frame]
    ELSE ScoreTransit(SetColumn(frame, "n_speed", NormalizeAscending(Column(frame, "speed"))))

-----------------------------------------------------------------------------
(* DataFrame.sort_values(by=..., ascending=...) with the default kind,     *)
(* 'quicksort'.  pandas sorts the non-NaN keys with numpy's argsort and    *)
(* puts the NaN rows last in their input order.  'quicksort' makes no      *)
(* promise about equal keys: builds whose argsort is an insertion sort     *)
(* keep them in input order, vectorised builds do not.  stable says which  *)
(* build this is; the other order of equal keys is taken to be the reverse *)
(* of the input order.                                                     *)

SortOrder(keys, ascending, stable) ==
    LET n == Len(keys)
        Before(j, i) ==
            IF IsNum(keys[j]) /\ IsNum(keys[i])
            THEN \/ IF ascending THEN Lt(keys[j], keys[i]) ELSE Lt(keys[i], keys[j])
                 \/ /\ keys[j] = keys[i]
                    /\ IF stable THEN j < i ELSE j > i
            ELSE IF IsNum(keys[j]) THEN TRUE
            ELSE IF IsNum(keys[i]) THEN FALSE
            ELSE j < i
        pos == Tuple([i \in 1..n |-> 1 + Cardinality({j \in (1..n) \ {i} : Before(j, i)})])
    IN  Tuple([p \in 1..n |-> CHOOSE i \in 1..n : pos[i] = p])

\* lines 60-62: select five columns, sort by score descending, renumber, add rank
RankedTable(frame, stable) ==
    LET order == SortOrder(Column(frame, "score"), FALSE, stable) IN
    Tuple([p \in 1..Len(frame.rows) |->
              [rank      |-> p,
               region    |-> frame.rows[order[p]].region,
               speed     |-> frame.rows[order[p]].speed,
               transit   |-> frame.rows[order[p]].transit,
               accidents |-> frame.rows[order[p]].accidents,
               score     |-> frame.rows[order[p]].score]])

\* the data of one bar chart: x = region, y = the column, in sorted order
ChartData(frame, c, ascending, stable) ==
    LET order == SortOrder(Column(frame, c), ascending, stable) IN
    Tuple([p \in 1..Len(frame.rows) |->
              [region |-> frame.rows[order[p]].region, value |-> frame.rows[order[p]][c]]])

NoCharts == [score |-> <<>>, speed |-> <<>>, transit |-> <<>>, accidents |-> <<>>]

\* lines 70-88
Charts(frame, stable) ==
    [score     |-> ChartData(frame, "score", FALSE, stable),
     speed     |-> ChartData(frame, "speed", FALSE, stable),
     transit   |-> ChartData(frame, "transit", FALSE, stable),
     accidents |-> ChartData(frame, "accidents", TRUE, stable)]

-----------------------------------------------------------------------------
(* The selectbox and the comparison block, lines 97-118 *)

\* line 97
AllLocations(frame) ==
    <<Placeholder>> \o Column(frame, "region")

\* st.selectbox: the widget keeps its value from the previous run when it was
\* rendered there with the same options, and starts at the first option otherwise
SelectboxValue(options, prev_options, prev_value) ==
    IF options = prev_options /\ prev_value \in Range(options)
    THEN prev_value
    ELSE options[1]

\* df['지역'] == user_location: a NaN name equals nothing, itself included
MatchingRows(frame, loc) ==
    {i \in 1..Len(frame.rows) : frame.rows[i].region = loc /\ loc # NaNRegion}

\* Direction with "higher" also for a difference of exactly 0
Direction_NoEqual(diff) ==
    IF ~Lt(diff, Num(0)) /\ IsNum(diff) THEN "higher"
    ELSE IF Lt(diff, Num(0)) THEN "lower"
    ELSE "equal"

\* line 116
Direction(diff) ==
    IF Gt(diff, Num(0)) THEN "higher"
    ELSE IF Lt(diff, Num(0)) THEN "lower"
    ELSE "equal"

NoLine == [user_val |-> Unset, avg_val |-> Unset, diff |-> Unset, direction |-> "none"]

NoComparison ==
    [shown |-> FALSE, location |-> Placeholder, score |-> Unset, avg_score |-> Unset,
     lines |-> [c \in Metrics |-> NoLine]]

\* lines 113-116
ComparisonLine(user_val, avg_val) ==
    [user_val  |-> user_val,
     avg_val   |-> avg_val,
     diff      |-> Sub(user_val, avg_val),
     direction |-> Direction(Sub(user_val, avg_val))]

\* lines 102-118, for the row user_data of line 101
CompareWithAverage(frame, user_data) ==
    [shown     |-> TRUE,
     location  |-> user_data.region,
     score     |-> user_data.score,
     avg_score |-> ColMean(Column(frame, "score")),
     lines     |-> [c \in Metrics |->
                      ComparisonLine(user_data[c], ColMean(Column(frame, c)))]]

\* line 101: the first matching row; the caller has checked that there is one
Comparison(frame, loc) ==
    CompareWithAverage(frame,
        frame.rows[CHOOSE i \in MatchingRows(frame, loc) :
                       \A j \in MatchingRows(frame, loc) : i <= j])

-----------------------------------------------------------------------------
(* One execution of the script, lines 51-121 *)

BlankPage ==
    [status |-> "info", df |-> EmptyFrame, display_df |-> <<>>, charts |-> NoCharts,
     all_locations |-> <<>>, user_location |-> Placeholder,
     comparison |-> NoComparison, warning |-> FALSE, exception |-> "none"]

\* lines 100-118
RenderSelection(page, frame) ==
    IF page.user_location = Placeholder THEN page
    ELSE IF MatchingRows(frame, page.user_location) = {}
    THEN [page EXCEPT !.exception = "IndexError"]
    ELSE [page EXCEPT !.comparison = Comparison(frame, page.user_location)]

\* lines 59-98
RenderResults(page, frame, prev_options, prev_value, stable) ==
    RenderSelection(
        [page EXCEPT !.display_df = RankedTable(frame, stable),
                     !.charts = Charts(frame, stable),
                     !.all_locations = AllLocations(frame),
                     !.user_location =
                         SelectboxValue(AllLocations(frame), prev_options, prev_value)],
        frame)

\* lines 57-60: an exception of calculate_traffic_score or of the column
\* selection of line 60 ends the run
AfterScore(page, scored, prev_options, prev_value, stable) ==
    IF scored.exc # "none"
    THEN [page EXCEPT !.df = scored.df, !.exception = scored.exc]
    ELSE IF "region" \notin scored.df.columns
    THEN [page EXCEPT !.df = scored.df, !.exception = "KeyError"]
    ELSE RenderResults([page EXCEPT !.df = scored.df], scored.df,
                       prev_options, prev_value, stable)

\* lines 56-121
AfterLoad(loaded, prev_options, prev_value, stable) ==
    IF IsEmpty(loaded.df)
    THEN [BlankPage EXCEPT !.status = loaded.status, !.df = loaded.df, !.warning = TRUE]
    ELSE AfterScore([BlankPage EXCEPT !.status = loaded.status, !.df = loaded.df],
                    calculate_traffic_score(loaded.df), prev_options, prev_value, stable)

ScriptRun(file, prev_options, prev_value, stable) ==
    AfterLoad(load_and_preprocess_data(file), prev_options, prev_value, stable)

\* what the browser shows after the run
Page ==
    [status |-> status, df |-> df, display_df |-> display_df, charts |-> charts,
     all_locations |-> all_locations, user_location |-> user_location,
     comparison |-> comparison, warning |-> warning, exception |-> exception]

Rerun(file, prev_options, prev_value) ==
    \E page \in {ScriptRun(file, prev_options, prev_value, argsort_stable)} :
    /\ uploaded_file' = file
    /\ user_location' = page.user_location
    /\ status' = page.status
    /\ df' = page.df
    /\ display_df' = page.display_df
    /\ charts' = page.charts
    /\ all_locations' = page.all_locations
    /\ comparison' = page.comparison
    /\ warning' = page.warning
    /\ exception' = page.exception
    /\ UNCHANGED argsort_stable

-----------------------------------------------------------------------------
(* Inputs *)

ScoreSpeeds == {1, 2, 3}

ScoreCounts == {1, 2}

\* rows are named A, B, A, ...: a dataset of three rows holds a repeated name
ScoreName(i) == IF i % 2 = 1 THEN "A" ELSE "B"

ScoreMetrics == [speed : ScoreSpeeds, transit : ScoreCounts, accidents : ScoreCounts]

ScoreDataset(ms) ==
    Csv(RequiredColumns,
        Tuple([i \in 1..Len(ms) |->
                  MakeRow(ScoreName(i), Num(ms[i].speed), Num(ms[i].transit),
                          Num(ms[i].accidents))]))

\* every dataset of at most MaxRows rows over these numeric metrics
ScoreFiles == {ScoreDataset(ms) : ms \in SeqsUpTo(ScoreMetrics, MaxRows)}

SessionRows ==
    {MakeRow("A", Num(30), Num(5), Num(10)), MakeRow("B", Num(60), Num(15), Num(2))}

\* the file without column c
DropColumn(file, c) ==
    Csv(file.columns \ {c},
        Tuple([i \in 1..Len(file.rows) |->
                  [file.rows[i] EXCEPT ![c] = IF c = "region" THEN NaNRegion ELSE Unset]]))

\* the file with the cell (r, c) left empty
BlankCell(file, r, c) ==
    Csv(file.columns,
        [file.rows EXCEPT ![r][c] = IF c = "region" THEN NaNRegion ELSE NaN])

\* the file with text in the metric cell (r, c)
TextCell(file, r, c) == Csv(file.columns, [file.rows EXCEPT ![r][c] = Text])

\* the file with row r named like the first selectbox option
PlaceholderName(file, r) == Csv(file.columns, [file.rows EXCEPT ![r].region = Placeholder])

SessionDatasets ==
    {Csv(RequiredColumns, rows) : rows \in SeqsUpTo(SessionRows, MaxSessionRows)}

\* the files of a session whose pages are compared across histories
HistoryFiles ==
    {Garbage} \cup SessionDatasets \cup {DropColumn(f, "speed") : f \in SessionDatasets}

SessionFiles ==
    {Garbage} \cup SessionDatasets
    \cup {DropColumn(f, c) : f \in SessionDatasets, c \in RequiredColumns}
    \cup UNION {{BlankCell(f, r, c) : r \in 1..Len(f.rows), c \in RequiredColumns} :
                    f \in SessionDatasets}
    \cup UNION {{TextCell(f, r, c) : r \in 1..Len(f.rows), c \in Metrics} :
                    f \in SessionDatasets}
    \cup UNION {{PlaceholderName(f, r) : r \in 1..Len(f.rows)} : f \in SessionDatasets}

-----------------------------------------------------------------------------
(* The session: every interaction re-executes the script *)

NoMemo ==
    [set |-> FALSE, left |-> FALSE, file |-> NoFile, loc |-> Placeholder,
     page |-> BlankPage]

\* the remembered page, marked once another file has been shown after it
Leave(m, file) == IF m.set /\ file # m.file THEN [m EXCEPT !.left = TRUE] ELSE m

Init ==
    /\ argsort_stable \in BOOLEAN
    /\ uploaded_file = NoFile
    /\ \E page \in {ScriptRun(NoFile, <<>>, Placeholder, argsort_stable)} :
        /\ user_location = page.user_location
        /\ status = page.status
        /\ df = page.df
        /\ display_df = page.display_df
        /\ charts = page.charts
        /\ all_locations = page.all_locations
        /\ comparison = page.comparison
        /\ warning = page.warning
        /\ exception = page.exception
    /\ memo = NoMemo

\* a file is dropped on the uploader
UploadFile(f) ==
    /\ Rerun(f, all_locations, user_location)
    /\ memo' = Leave(memo, f)

\* the uploaded file is removed with the uploader's x button
RemoveFile ==
    /\ uploaded_file # NoFile
    /\ Rerun(NoFile, all_locations, user_location)
    /\ memo' = Leave(memo, NoFile)

\* an option of the rendered selectbox is picked
SelectLocation(loc) ==
    /\ loc \in Range(all_locations)
    /\ loc # user_location
    /\ Rerun(uploaded_file, all_locations, loc)
    /\ UNCHANGED memo

\* history variable: remember one page together with its file and selection
Remember ==
    /\ ~memo.set
    /\ memo' = [set |-> TRUE, left |-> FALSE, file |-> uploaded_file,
                loc |-> user_location, page |-> Page]
    /\ UNCHANGED <<uploaded_file, user_location, argsort_stable, status, df, display_df,
                   charts, all_locations, comparison, warning, exception>>

Upload == \E f \in SessionFiles : UploadFile(f)

Select == \E loc \in Range(all_locations) : SelectLocation(loc)

Next == Upload \/ RemoveFile \/ Select

Spec == Init /\ [][Next]_vars

\* the session over HistoryFiles, with one page remembered
UploadAgain == \E f \in HistoryFiles : UploadFile(f)

NextHistory == UploadAgain \/ RemoveFile \/ Select \/ Remember

SpecHistory == Init /\ [][NextHistory]_vars

\* one upload of any dataset of ScoreFiles, then one selection of any of its
\* regions: every pair of a dataset and a selection is reached
FirstUpload ==
    /\ uploaded_file = NoFile
    /\ \E f \in ScoreFiles : UploadFile(f)

FirstSelect ==
    /\ user_location = Placeholder
    /\ Select

NextScore == FirstUpload \/ FirstSelect

SpecScore == Init /\ [][NextScore]_vars

-----------------------------------------------------------------------------
(* Vocabulary of the properties *)

\* the column that holds the normalised values of a metric
Normalized(c) ==
    IF c = "speed" THEN "n_speed" ELSE IF c = "transit" THEN "n_transit" ELSE "n_safety"

\* a non-empty CSV with the four columns, a name in every region cell and a
\* number in every metric cell
ValidDataset(file) ==
    /\ file.kind = "csv"
    /\ RequiredColumns \subseteq file.columns
    /\ Len(file.rows) > 0
    /\ \A i \in 1..Len(file.rows) :
        /\ file.rows[i].region # NaNRegion
        /\ \A c \in Metrics : IsNum(file.rows[i][c])

\* a CSV the scoring must refuse: no rows, a metric column missing, or a metric
\* cell that holds no number
InvalidDataset(file) ==
    /\ file.kind = "csv"
    /\ \/ Len(file.rows) = 0
       \/ ~(Metrics \subseteq file.columns)
       \/ \E i \in 1..Len(file.rows) : \E c \in Metrics : ~IsNum(file.rows[i][c])

\* every row of the file holds the same value in column c
Degenerate(file, c) ==
    \A i, j \in 1..Len(file.rows) : file.rows[i][c] = file.rows[j][c]

InRange(x, lo, hi) == IsNum(x) /\ ~Lt(x, Num(lo)) /\ ~Gt(x, Num(hi))

IsColumnMax(file, c, i) == \A j \in 1..Len(file.rows) : ~Lt(file.rows[i][c], file.rows[j][c])

IsColumnMin(file, c, i) == \A j \in 1..Len(file.rows) : ~Lt(file.rows[j][c], file.rows[i][c])

\* the run rendered the ranked table
TableShown == display_df # <<>>

\* no row carries a computed score and no table is shown
NoScoredRows ==
    /\ display_df = <<>>
    /\ \A i \in 1..Len(df.rows) : df.rows[i].score = Unset

-----------------------------------------------------------------------------
(* C1: when every row holds the same value in a metric column, the         *)
(* normalised value of that column is 100 in every row and the run raises  *)
(* no exception.                                                           *)

C1_DegenerateColumnIs100 ==
    \A c \in Metrics :
        (ValidDataset(uploaded_file) /\ Degenerate(uploaded_file, c)) =>
            /\ exception = "none"
            /\ Len(df.rows) = Len(uploaded_file.rows)
            /\ \A i \in 1..Len(df.rows) : df.rows[i][Normalized(c)] = Num(100)

-----------------------------------------------------------------------------
(* C2: in a column with at least two distinct values every normalised      *)
(* value lies in [0,100]; for speed and transit the rows holding the       *)
(* maximum get 100 and those holding the minimum get 0, for accidents the  *)
(* rows holding the maximum get 0 and those holding the minimum get 100.   *)

C2_NormalizedRange ==
    \A c \in Metrics :
        (ValidDataset(uploaded_file) /\ ~Degenerate(uploaded_file, c)) =>
            /\ Len(df.rows) = Len(uploaded_file.rows)
            /\ \A i \in 1..Len(df.rows) :
                /\ InRange(df.rows[i][Normalized(c)], 0, 100)
                /\ IsColumnMax(uploaded_file, c, i) =>
                       df.rows[i][Normalized(c)] = Num(IF c = "accidents" THEN 0 ELSE 100)
                /\ IsColumnMin(uploaded_file, c, i) =>
                       df.rows[i][Normalized(c)] = Num(IF c = "accidents" THEN 100 ELSE 0)

\* a scored dataset whose speed column has a minimum, a maximum and a value
\* between them, and whose accidents column has two values
C2_Witness ==
    /\ ValidDataset(uploaded_file)
    /\ TableShown
    /\ ~Degenerate(uploaded_file, "accidents")
    /\ \E i \in 1..Len(df.rows) :
        /\ Gt(df.rows[i].n_speed, Num(0))
        /\ Lt(df.rows[i].n_speed, Num(100))

-----------------------------------------------------------------------------
(* C3: the score of every row is 0.4, 0.3 and 0.3 times its normalised     *)
(* speed, transit and safety values, and lies in [0,100].                  *)

C3_ScoreIsConvexCombination ==
    ValidDataset(uploaded_file) =>
        /\ Len(df.rows) = Len(uploaded_file.rows)
        /\ \A i \in 1..Len(df.rows) :
            /\ df.rows[i].score =
                   Add(Add(Mul(df.rows[i].n_speed, Rat(4, 10)),
                           Mul(df.rows[i].n_transit, Rat(3, 10))),
                       Mul(df.rows[i].n_safety, Rat(3, 10)))
            /\ InRange(df.rows[i].score, 0, 100)

-----------------------------------------------------------------------------
(* C4: the ranked table holds the scored rows in descending score order,   *)
(* rows of equal score in their input order, with ranks 1, 2, ..., n.      *)

Permutations(n) == {p \in [1..n -> 1..n] : \A i, j \in 1..n : p[i] = p[j] => i = j}

C4_RankedTableIsStableSort ==
    ValidDataset(uploaded_file) =>
        /\ Len(display_df) = Len(df.rows)
        /\ \E p \in Permutations(Len(df.rows)) :
            /\ \A q \in 1..Len(df.rows) :
                /\ display_df[q].rank = q
                /\ display_df[q].region = df.rows[p[q]].region
                /\ display_df[q].speed = df.rows[p[q]].speed
                /\ display_df[q].transit = df.rows[p[q]].transit
                /\ display_df[q].accidents = df.rows[p[q]].accidents
                /\ display_df[q].score = df.rows[p[q]].score
            /\ \A q, r \in 1..Len(df.rows) :
                q < r =>
                    /\ ~Lt(df.rows[p[q]].score, df.rows[p[r]].score)
                    /\ df.rows[p[q]].score = df.rows[p[r]].score => p[q] < p[r]

-----------------------------------------------------------------------------
(* C5: the comparison reports, for each metric, the value of the selected  *)
(* region's first row, the mean of the column over all rows, and their     *)
(* difference; the label is "higher" exactly when the difference is above  *)
(* 0, "lower" exactly when it is below 0 and "equal" exactly when it is 0. *)

RECURSIVE SumRaw(_, _, _)
SumRaw(rows, c, i) == IF i = 0 THEN 0 ELSE SumRaw(rows, c, i - 1) + rows[i][c].n

FirstRowNamed(rows, name) ==
    CHOOSE i \in 1..Len(rows) :
        /\ rows[i].region = name
        /\ \A j \in 1..(i - 1) : rows[j].region # name

C5_ComparisonAgainstMean ==
    (ValidDataset(uploaded_file) /\ comparison.shown) =>
        /\ comparison.location = user_location
        /\ \E i \in 1..Len(uploaded_file.rows) : uploaded_file.rows[i].region = user_location
        /\ \A c \in Metrics :
            LET rows  == uploaded_file.rows
                n     == Len(rows)
                u     == rows[FirstRowNamed(rows, user_location)][c].n
                total == SumRaw(rows, c, n)
                line  == comparison.lines[c]
            IN  /\ line.user_val = Num(u)
                /\ IsNum(line.avg_val)
                /\ line.avg_val.n * n = total * line.avg_val.d
                /\ IsNum(line.diff)
                /\ line.diff.n * n = (u * n - total) * line.diff.d
                /\ line.direction = "higher" <=> u * n > total
                /\ line.direction = "lower" <=> u * n < total
                /\ line.direction = "equal" <=> u * n = total

\* a region whose name two rows carry is selected in a dataset of three rows; its
\* first row is below the mean speed, at the mean transit count and above the
\* mean accident count
C5_Witness ==
    /\ ValidDataset(uploaded_file)
    /\ comparison.shown
    /\ \E i, j \in 1..Len(uploaded_file.rows) :
        /\ i < j
        /\ uploaded_file.rows[i].region = user_location
        /\ uploaded_file.rows[j].region = user_location
        /\ uploaded_file.rows[i].speed # uploaded_file.rows[j].speed
    /\ comparison.lines["speed"].direction = "lower"
    /\ comparison.lines["transit"].direction = "equal"
    /\ comparison.lines["accidents"].direction = "higher"

-----------------------------------------------------------------------------
(* C6: from an invalid dataset (no rows, a metric column missing, a metric *)
(* value that is not a number) the run produces no scored rows and ends in *)
(* a handled error outcome.                                                *)

C6_InvalidDatasetRejected ==
    InvalidDataset(uploaded_file) =>
        /\ NoScoredRows
        /\ exception = "none"
        /\ status = "error" \/ warning

-----------------------------------------------------------------------------
(* C7: for a file that is not parseable as CSV or lacks a required column  *)
(* the load step shows an error message, and the run renders no table, no  *)
(* chart and no comparison but the empty-state prompt.                     *)

C7_UnusableFileShowsErrorAndPrompt ==
    (\/ uploaded_file.kind = "garbage"
     \/ uploaded_file.kind = "csv" /\ ~(RequiredColumns \subseteq uploaded_file.columns)) =>
        /\ status = "error"
        /\ ~TableShown
        /\ charts = NoCharts
        /\ ~comparison.shown
        /\ warning

-----------------------------------------------------------------------------
(* C8: every run ends in a handled outcome, never in an uncaught           *)
(* exception.                                                              *)

C8_NoUncaughtException == exception = "none"

-----------------------------------------------------------------------------
(* C9: the page is a function of the uploaded file and the selection: a    *)
(* page remembered earlier in the session equals the page shown now        *)
(* whenever the file and the selection are the same again.                 *)

C9_PageDependsOnFileAndSelection ==
    (memo.set /\ memo.file = uploaded_file /\ memo.loc = user_location) =>
        memo.page = Page

\* a comparison page is shown again after another file was shown in between
C9_Witness ==
    /\ memo.set
    /\ memo.left
    /\ memo.file = uploaded_file
    /\ memo.loc = user_location
    /\ comparison.shown

-----------------------------------------------------------------------------
(* C10: for a valid dataset the comparison is shown exactly when the       *)
(* selection is the name of one of its rows, it describes the first row of *)
(* that name, the lookup of line 101 never fails, and every region is      *)
(* among the options.                                                      *)

C10_ComparisonIffRegionSelected ==
    ValidDataset(uploaded_file) =>
        /\ exception # "IndexError"
        /\ \A i \in 1..Len(uploaded_file.rows) :
               uploaded_file.rows[i].region \in Range(all_locations)
        /\ comparison.shown <=>
               \E i \in 1..Len(uploaded_file.rows) :
                   uploaded_file.rows[i].region = user_location
        /\ comparison.shown =>
               \A c \in Metrics :
                   comparison.lines[c].user_val =
                       uploaded_file.rows[FirstRowNamed(uploaded_file.rows, user_location)][c]

=============================================================================
